---- MODULE Spec2Model ----
(***************************************************************************)
(* A model of the ASR artifacts: the DIMACS helpers, the unit-clause       *)
(* mutators, the literal selectors (frequency, spectral v0b, Rayleigh v4,  *)
(* force-walk/clean, random control) and the iteration controllers.        *)
(*                                                                         *)
(* A CNF file is a sequence of lines, each line ended by a newline.  A     *)
(* line is a record: a comment, a "p cnf <nv> <nc>" header or a clause     *)
(* line holding its integer tokens (the terminating 0 included when the    *)
(* line has one).                                                          *)
(*                                                                         *)
(* Score vectors are kept as integer vectors up to a positive common       *)
(* factor: an L2 normalisation multiplies a vector by a positive scalar,   *)
(* so it is modelled by a division by the gcd of the entries.  Wherever    *)
(* the code mixes terms of different degree in the normalised vector the   *)
(* squared norm is carried along and the comparison is decided exactly.    *)
(*                                                                         *)
(* Floating point: two scores that are equal as real numbers need not be   *)
(* equal as floats (the sums are taken in different orders).  A rounding   *)
(* rd gives every variable an offset rd.ulp[v] that orders scores equal as *)
(* reals, and a set rd.flip of variables for which a comparison of two     *)
(* sums equal as reals comes out "less".  A selector call may run under    *)
(* any rounding; scores are identical when value and offset are equal.     *)
(***************************************************************************)
EXTENDS Integers, Sequences, FiniteSets, TLC

VARIABLES variant, pc, curr, cnf_out, new_units, used, it, k_added,
          k_total, k_step, max_iters, iters, records, rounding,
          this_k, csv_disk, log, tries

vars == <<variant, pc, curr, cnf_out, new_units, used, it, k_added,
          k_total, k_step, max_iters, iters, records, rounding,
          this_k, csv_disk, log, tries>>

\* ------------------------------------------------------------------ bounds
\* Most clause lines of an input file of MutSpec.
MaxClauses == 2
\* Most unit clauses appended to one file, over all mutations, and most
\* mutator runs on one file, in MutSpec.
MaxAdded == 3
\* Largest rounding offset of a score.
MaxUlp == 2
\* Largest number of rounds of a power iteration (the iters / ITERS argument).
MaxPowerIters == 2
\* Largest number of literals asked of a selector.
MaxK == 3

\* ----------------------------------------------------------------- helpers
Abs(x) == IF x < 0 THEN -x ELSE x

Max2(a, b) == IF a >= b THEN a ELSE b

Min2(a, b) == IF a <= b THEN a ELSE b

Range(s) == { s[i] : i \in 1..Len(s) }

RECURSIVE SeqsUpTo(_, _)
SeqsUpTo(S, n) ==
    IF n = 0 THEN { <<>> }
    ELSE LET shorter == SeqsUpTo(S, n - 1)
         IN  shorter \cup { Append(s, x) : s \in shorter, x \in S }

RECURSIVE Gcd(_, _)
Gcd(a, b) == IF b = 0 THEN a ELSE Gcd(b, a % b)

\* ------------------------------------------------------------------- lines
CommentLine(i) == [k |-> "c", nv |-> i, nc |-> 0, toks |-> <<>>]

HeaderLine(n, m) == [k |-> "p", nv |-> n, nc |-> m, toks |-> <<>>]

ClauseLine(t) == [k |-> "cl", nv |-> 0, nc |-> 0, toks |-> t]

NoFile == <<>>

\* The clause lines of a file, in order.
ClauseLines(file) == SelectSeq(file, LAMBDA ln : ln.k = "cl")

\* The header lines of a file, in order.
HeaderLines(file) == SelectSeq(file, LAMBDA ln : ln.k = "p")

\* ------------------------------------------------- read_dimacs / write_dimacs
\* A clause line's literals: the tokens, a trailing 0 stripped if present.
StripTerminator(toks) ==
    IF Len(toks) > 0 /\ toks[Len(toks)] = 0
    THEN SubSeq(toks, 1, Len(toks) - 1)
    ELSE toks

RECURSIVE read_lines(_, _)
read_lines(file, acc) ==
    IF file = <<>> THEN acc
    ELSE LET ln == Head(file)
             nxt == CASE ln.k = "c"  -> [acc EXCEPT !.comments = Append(@, ln.nv)]
                      [] ln.k = "p"  -> [acc EXCEPT !.nvars = ln.nv]
                      [] OTHER       -> [acc EXCEPT !.clauses =
                                            Append(@, StripTerminator(ln.toks))]
         IN  read_lines(Tail(file), nxt)

read_dimacs(file) ==
    LET r == read_lines(file, [nvars |-> 0, clauses |-> <<>>, comments |-> <<>>])
    IN  [ok |-> r.nvars > 0, nvars |-> r.nvars, clauses |-> r.clauses,
         comments |-> r.comments]

\* A writer that leaves explicit empty clauses out.
write_dimacs_no_empty(nvars, clauses, comments) ==
    LET kept == SelectSeq(clauses, LAMBDA cl : cl # <<>>)
    IN  [i \in 1..Len(comments) |-> CommentLine(comments[i])]
        \o << HeaderLine(nvars, Len(kept)) >>
        \o [j \in 1..Len(kept) |-> ClauseLine(Append(kept[j], 0))]

write_dimacs(nvars, clauses, comments) ==
    [i \in 1..Len(comments) |-> CommentLine(comments[i])]
    \o << HeaderLine(nvars, Len(clauses)) >>
    \o [j \in 1..Len(clauses) |-> ClauseLine(Append(clauses[j], 0))]

\* -------------------------------------------------------------- the mutators
\* The unit clauses of a literal list in the reverse of the list's order.
UnitClausesReversed(lits) ==
    [i \in 1..Len(lits) |-> << lits[Len(lits) + 1 - i] >>]

UnitClauses(lits) == [i \in 1..Len(lits) |-> << lits[i] >>]

\* add_unit_clauses of the v4 runners: read, append [lit] per literal, write.
\* The result is NoFile when read_dimacs raises.
add_unit_clauses(src, lits) ==
    LET r == read_dimacs(src)
    IN  IF ~r.ok THEN NoFile
        ELSE write_dimacs(r.nvars, r.clauses \o UnitClauses(lits), r.comments)

\* apply_units.py: the header values come from the last "p" line, the first
\* "p" line is rewritten with the declared count plus len(lits), every other
\* line is copied, and "<lit> 0" is appended per literal.  NoFile stands for
\* exit code 1 (no literal given, or no header found).
RECURSIVE rewrite_header(_, _, _)
rewrite_header(file, hdr, done) ==
    IF file = <<>> THEN <<>>
    ELSE IF ~done /\ Head(file).k = "p"
         THEN << hdr >> \o rewrite_header(Tail(file), hdr, TRUE)
         ELSE << Head(file) >> \o rewrite_header(Tail(file), hdr, done)

\* A mutator that skips a literal it has already appended.
RECURSIVE Dedup(_)
Dedup(lits) ==
    IF lits = <<>> THEN <<>>
    ELSE LET front == Dedup(SubSeq(lits, 1, Len(lits) - 1))
             x     == lits[Len(lits)]
         IN  IF x \in Range(front) THEN front ELSE Append(front, x)

apply_units_dedup(file, lits) ==
    LET hs == HeaderLines(file)
        ls == Dedup(lits)
    IN  IF Len(lits) = 0 \/ hs = <<>> THEN NoFile
        ELSE LET last == hs[Len(hs)]
                 hdr  == HeaderLine(last.nv, last.nc + Len(ls))
             IN  rewrite_header(file, hdr, FALSE)
                 \o [i \in 1..Len(ls) |-> ClauseLine(<< ls[i], 0 >>)]

apply_units(file, lits) ==
    LET hs == HeaderLines(file)
    IN  IF Len(lits) = 0 \/ hs = <<>> THEN NoFile
        ELSE LET last == hs[Len(hs)]
                 hdr  == HeaderLine(last.nv, last.nc + Len(lits))
             IN  rewrite_header(file, hdr, FALSE)
                 \o [i \in 1..Len(lits) |-> ClauseLine(<< lits[i], 0 >>)]

\* The mutator a driver uses: apply_units.py as a subprocess (v1, random
\* control) or the in-process add_unit_clauses (v4, clean, force-walk).
Mutator(v, file, lits) ==
    IF v \in {"apply_units", "v1", "random"}
    THEN apply_units(file, lits)
    ELSE add_unit_clauses(file, lits)

\* ------------------------------------------------------------- input files
\* Clause lines of the input files: two- and three-literal clauses, a unit
\* clause, a clause repeating a variable, an explicit empty clause and a
\* line without the terminating 0.
ClausePool ==
    { <<1, -2, 0>>, <<2, 3, 0>>, <<-1, 3, 0>>, <<-2, 0>>, <<1, 1, 0>>, <<0>>,
      <<-1, 2, -3, 0>>, <<2, -3>> }

\* A file: an optional leading comment, the header (whose clause count may be
\* off by `off`: the count is advisory), the clause lines, and an optional
\* comment after them.
MkFile(c1, nv, off, cls, c2) ==
    (IF c1 THEN << CommentLine(1) >> ELSE <<>>)
    \o << HeaderLine(nv, Len(cls) + off) >>
    \o [j \in 1..Len(cls) |-> ClauseLine(cls[j])]
    \o (IF c2 THEN << CommentLine(2) >> ELSE <<>>)

\* ------------------------------------------------------------------ sorting
\* list.sort: a stable sort.  `before` is the strict order of the keys as a
\* boolean matrix over the positions 1..n of the list; the result lists the
\* positions in sorted order.  Positions are inserted in list order and a
\* position goes behind every earlier one it is not strictly before, so equal
\* keys keep their original order (also under reverse=True).
RECURSIVE InsertStable(_, _, _)
InsertStable(s, e, before) ==
    IF s = <<>> THEN << e >>
    ELSE IF before[e][Head(s)] THEN << e >> \o s
         ELSE << Head(s) >> \o InsertStable(Tail(s), e, before)

RECURSIVE StableSort(_, _)
StableSort(n, before) ==
    IF n = 0 THEN <<>>
    ELSE InsertStable(StableSort(n - 1, before), n, before)

\* A sort that puts equal keys in the reverse of their original order (an
\* ascending sort read backwards).
ReverseSeq(s) == [i \in 1..Len(s) |-> s[Len(s) + 1 - i]]

SortTiesReversed(n, before) ==
    ReverseSeq(StableSort(n, [i \in 1..n |-> [j \in 1..n |-> before[j][i]]]))

SortPositions(n, before) == StableSort(n, before)

\* s[:k] of Python: a negative k counts from the end.
Slice(s, k) ==
    IF k >= 0 THEN SubSeq(s, 1, Min2(k, Len(s)))
    ELSE SubSeq(s, 1, Max2(Len(s) + k, 0))

RECURSIVE SeqSum(_)
SeqSum(s) == IF s = <<>> THEN 0 ELSE Head(s) + SeqSum(Tail(s))

Count(s, x) == Cardinality({ i \in 1..Len(s) : s[i] = x })

\* ---------------------------------------------- the line parser of the pickers
\* pick_literals_freq.py and parse_dimacs of v0b read a clause line token by
\* token and stop at the first "0".
RECURSIVE LitsBeforeZero(_)
LitsBeforeZero(toks) ==
    IF toks = <<>> \/ Head(toks) = 0 THEN <<>>
    ELSE << Head(toks) >> \o LitsBeforeZero(Tail(toks))

\* The literal lists of the clause lines, as these parsers see them.
ParsedLines(file) ==
    LET cl == ClauseLines(file)
    IN  [j \in 1..Len(cl) |-> LitsBeforeZero(cl[j].toks)]

\* pos.get(v, 0) / neg.get(v, 0) with lit = +v / -v: the occurrences of a
\* literal in the clause lines.
Occ(file, lit) ==
    LET pl == ParsedLines(file)
    IN  SeqSum([j \in 1..Len(pl) |-> Count(pl[j], lit)])

\* num_vars of the pickers: the <vars> of the last header line, 0 for None.
HeaderVars(file) ==
    LET hs == HeaderLines(file)
    IN  IF hs = <<>> THEN 0 ELSE hs[Len(hs)].nv

\* A polarity rule with ties negative.
PolarityTiesNegative(file, v) == IF Occ(file, v) > Occ(file, -v) THEN v ELSE -v

\* Majority polarity, ties positive.
Polarity(file, v) == IF Occ(file, v) >= Occ(file, -v) THEN v ELSE -v

\* A picker's result: the literals printed, or an error exit.
Picked(lits) == [ok |-> TRUE, lits |-> lits]

PickError == [ok |-> FALSE, lits |-> <<>>]

\* ------------------------------------------------------ pick_literals_freq.py
\* counts: (total, v) for v = 1..num_vars with total > 0, in ascending v.
RECURSIVE OccurringVars(_, _)
OccurringVars(file, n) ==
    IF n <= 0 THEN <<>>
    ELSE LET front == OccurringVars(file, n - 1)
         IN  IF Occ(file, n) + Occ(file, -n) > 0 THEN Append(front, n) ELSE front

\* A counts list that keeps every variable of 1..num_vars.
RECURSIVE AllVars(_, _)
AllVars(file, n) == IF n <= 0 THEN <<>> ELSE Append(AllVars(file, n - 1), n)

FreqCandidates(file, n) == OccurringVars(file, n)

pick_literals_freq(file, K) ==
    LET nv     == HeaderVars(file)
        cand   == FreqCandidates(file, nv)
        total  == [i \in 1..Len(cand) |-> Occ(file, cand[i]) + Occ(file, -cand[i])]
        \* key (-total, v)
        before == [i \in 1..Len(cand) |-> [j \in 1..Len(cand) |->
                      \/ total[i] > total[j]
                      \/ total[i] = total[j] /\ cand[i] < cand[j]]]
        order  == SortPositions(Len(cand), before)
        picked == Slice(order, K)
    IN  IF K <= 0 \/ HeaderLines(file) = <<>> \/ cand = <<>> THEN PickError
        ELSE Picked([i \in 1..Len(picked) |-> Polarity(file, cand[picked[i]])])

\* ------------------------------------------------------------ score vectors
RECURSIVE SetSum(_, _)
SetSum(S, f) ==
    IF S = {} THEN 0
    ELSE LET x == CHOOSE y \in S : TRUE
         IN  f[x] + SetSum(S \ {x}, f)

RECURSIVE SeqGcd(_)
SeqGcd(s) == IF s = <<>> THEN 0 ELSE Gcd(Abs(Head(s)), SeqGcd(Tail(s)))

\* l2_normalize: the vector is returned as it is when the sum of squares is
\* not positive, and multiplied by the positive 1/sqrt(sum) otherwise.
l2_normalize(vec) ==
    LET g == SeqGcd(vec)
    IN  IF g = 0 THEN vec ELSE [i \in 1..Len(vec) |-> vec[i] \div g]

\* The roundings of a selector call over the variables 1..nv.
NoRounding == [ulp |-> <<>>, flip |-> {}]

\* same[v][w]: the scores of v and w are equal as reals; flippable: the
\* variables whose polarity rests on a comparison of two sums equal as reals.
\* Only the order of the offsets among variables with equal scores matters,
\* so an offset above 0 is used only next to a tied variable with the offset
\* one below (a variable whose score no other shares has offset 0).
Roundings(nv, same, flippable) ==
    IF nv <= 0 THEN { NoRounding }
    ELSE { [ulp |-> u, flip |-> f] :
             u \in { w \in [1..nv -> 0..MaxUlp] :
                       \A v \in 1..nv :
                          w[v] > 0 =>
                             \E x \in 1..nv :
                                x # v /\ same[v][x] /\ w[x] = w[v] - 1 },
             f \in SUBSET flippable }

ExactRounding(nv) == [ulp |-> [v \in 1..nv |-> 0], flip |-> {}]

\* ------------------------------------------------- pick_literals_asr_v0b.py
\* parse_dimacs keeps the non-empty clauses only.
parse_dimacs_clauses(file) == SelectSeq(ParsedLines(file), LAMBDA c : c # <<>>)

\* build_incidence: the distinct variables of each clause.
build_incidence(clauses) ==
    [j \in 1..Len(clauses) |-> { Abs(clauses[j][i]) : i \in 1..Len(clauses[j]) }]

\* One round of spectral_scores: clause scores from the variable scores,
\* normalised, then variable scores from the clause scores, normalised.
spectral_round(nv, clause_vars, var_score) ==
    LET m  == Len(clause_vars)
        cs == l2_normalize([j \in 1..m |-> SetSum(clause_vars[j], var_score)])
    IN  l2_normalize([v \in 1..nv |->
            SetSum({ j \in 1..m : v \in clause_vars[j] }, cs)])

RECURSIVE spectral_loop(_, _, _, _)
spectral_loop(nv, clause_vars, var_score, t) ==
    IF t = 0 THEN var_score
    ELSE spectral_loop(nv, clause_vars,
                       spectral_round(nv, clause_vars, var_score), t - 1)

spectral_scores(nv, clause_vars, t) ==
    LET start == [v \in 1..nv |->
                    IF \E j \in 1..Len(clause_vars) : v \in clause_vars[j]
                    THEN 1 ELSE 0]
    IN  spectral_loop(nv, clause_vars, l2_normalize(start), t)

\* scored: the variables with a positive score, in ascending order.
RECURSIVE PositiveVars(_, _)
PositiveVars(var_score, n) ==
    IF n <= 0 THEN <<>>
    ELSE LET front == PositiveVars(var_score, n - 1)
         IN  IF var_score[n] > 0 THEN Append(front, n) ELSE front

\* The sort key (-score, v) of pick_top_k_literals.
TopKBefore(var_score, cand, rd) ==
    [i \in 1..Len(cand) |-> [j \in 1..Len(cand) |->
        LET a == << var_score[cand[i]], rd.ulp[cand[i]] >>
            b == << var_score[cand[j]], rd.ulp[cand[j]] >>
        IN  \/ a[1] > b[1]
            \/ a[1] = b[1] /\ a[2] > b[2]
            \/ a = b /\ cand[i] < cand[j]]]

pick_top_k_literals(file, nv, var_score, k, rd) ==
    LET cand   == PositiveVars(var_score, nv)
        order  == SortPositions(Len(cand), TopKBefore(var_score, cand, rd))
        picked == Slice(order, k)
    IN  IF cand = <<>> THEN PickError
        ELSE Picked([i \in 1..Len(picked) |-> Polarity(file, cand[picked[i]])])

\* main of pick_literals_asr_v0b.py up to the scores: parse_dimacs,
\* build_incidence, spectral_scores.  A literal beyond num_vars raises an
\* IndexError in build_incidence.
v0b_scored(file, t) ==
    LET nv      == HeaderVars(file)
        clauses == parse_dimacs_clauses(file)
        cv      == build_incidence(clauses)
    IN  IF \/ t <= 0
           \/ HeaderLines(file) = <<>> \/ clauses = <<>>
           \/ \E j \in 1..Len(cv) : \E v \in cv[j] : v > nv
        THEN [ok |-> FALSE, nv |-> nv, var_score |-> <<>>]
        ELSE [ok |-> TRUE, nv |-> nv, var_score |-> spectral_scores(nv, cv, t)]

\* main of pick_literals_asr_v0b.py, given the scores sc = v0b_scored(file, t).
pick_literals_asr_v0b(file, k, sc, rd) ==
    IF k <= 0 \/ ~sc.ok THEN PickError
    ELSE pick_top_k_literals(file, sc.nv, sc.var_score, k, rd)

\* ------------------------- pick_units_rayleigh of the clean / force-walk runner
\* build_clause_vars: per clause the variables within 1..nvars, repeats kept.
build_clause_vars(clauses, nvars) ==
    [j \in 1..Len(clauses) |->
        LET cl == clauses[j]
        IN  SelectSeq([i \in 1..Len(cl) |-> Abs(cl[i])],
                      LAMBDA v : 1 <= v /\ v <= nvars)]

\* One round of power_iter_var_scores; the vector is left as it is when the
\* norm is zero (the loop breaks).
power_round(clause_vars, nvars, x) ==
    LET m  == Len(clause_vars)
        y  == [j \in 1..m |->
                 SeqSum([i \in 1..Len(clause_vars[j]) |-> x[clause_vars[j][i]]])]
        x2 == [v \in 1..nvars |->
                 SeqSum([j \in 1..m |-> y[j] * Count(clause_vars[j], v)])]
    IN  IF SeqGcd(x2) = 0 THEN x ELSE l2_normalize(x2)

RECURSIVE power_loop(_, _, _, _)
power_loop(clause_vars, nvars, x, t) ==
    IF t <= 0 THEN x
    ELSE power_loop(clause_vars, nvars, power_round(clause_vars, nvars, x), t - 1)

power_iter_var_scores(clause_vars, nvars, t) ==
    power_loop(clause_vars, nvars, [v \in 1..nvars |-> 1], t)

\* The sums of literal_scores_and_polarity: x, and per variable pos and neg,
\* the clause masses summed over its positive and negative occurrences.
literal_sums(clauses, nvars, t) ==
    LET x    == power_iter_var_scores(build_clause_vars(clauses, nvars), nvars, t)
        mass == [j \in 1..Len(clauses) |->
                   SeqSum([i \in 1..Len(clauses[j]) |->
                             IF clauses[j][i] = 0 THEN 0 ELSE x[Abs(clauses[j][i])]])]
        pos  == [v \in 1..nvars |->
                   SeqSum([j \in 1..Len(clauses) |-> mass[j] * Count(clauses[j], v)])]
        neg  == [v \in 1..nvars |->
                   SeqSum([j \in 1..Len(clauses) |-> mass[j] * Count(clauses[j], -v)])]
    IN  [x |-> x, pos |-> pos, neg |-> neg]

\* literal_scores_and_polarity: per variable the strength
\* x[v] * (pos[v] + neg[v] + 1e-12), kept as the triple
\* <<x*(pos+neg), x, rounding offset>> that orders it, and the polarity
\* (1 if pos[v] >= neg[v] else -1).
literal_scores_and_polarity(sums, nvars, rd) ==
    LET x   == sums.x
        pos == sums.pos
        neg == sums.neg
    IN  [v \in 1..nvars |->
            [strength |-> << x[v] * (pos[v] + neg[v]), x[v], rd.ulp[v] >>,
             pol      |-> IF pos[v] > neg[v] THEN 1
                          ELSE IF pos[v] < neg[v] THEN -1
                          ELSE IF pos[v] # 0 /\ v \in rd.flip THEN -1 ELSE 1]]

StrengthGreater(a, b) ==
    \/ a[1] > b[1]
    \/ a[1] = b[1] /\ a[2] > b[2]
    \/ a[1] = b[1] /\ a[2] = b[2] /\ a[3] > b[3]

\* order.sort(key=lambda v: scores[v][0], reverse=True)
RayleighBefore(scores, nvars) ==
    [i \in 1..nvars |-> [j \in 1..nvars |->
        StrengthGreater(scores[i].strength, scores[j].strength)]]

\* The selection loop over the ranked variables: skip a variable with either
\* polarity in avoid, append, stop once len(chosen) >= k.
RECURSIVE choose_units(_, _, _, _, _)
choose_units(order, scores, k, avoid, chosen) ==
    IF order = <<>> THEN chosen
    ELSE LET lit == scores[Head(order)].pol * Head(order)
         IN  IF lit \in avoid \/ -lit \in avoid
             THEN choose_units(Tail(order), scores, k, avoid, chosen)
             ELSE IF Len(chosen) + 1 >= k THEN Append(chosen, lit)
                  ELSE choose_units(Tail(order), scores, k, avoid,
                                    Append(chosen, lit))

\* A selection loop that does not look at avoid.
choose_units_no_avoid(order, scores, k, avoid, chosen) ==
    choose_units(order, scores, k, {}, chosen)

ChooseUnits(order, scores, k, avoid, chosen) ==
    choose_units(order, scores, k, avoid, chosen)

\* pick_units_rayleigh up to the sums.  read_dimacs raises on a missing
\* header; a literal beyond nvars raises an IndexError in
\* literal_scores_and_polarity.
rayleigh_scored(file, t) ==
    LET r == read_dimacs(file)
    IN  IF \/ ~r.ok
           \/ \E j \in 1..Len(r.clauses) : \E i \in 1..Len(r.clauses[j]) :
                 Abs(r.clauses[j][i]) > r.nvars
        THEN [ok |-> FALSE, nv |-> r.nvars, sums |-> <<>>]
        ELSE [ok |-> TRUE, nv |-> r.nvars,
              sums |-> literal_sums(r.clauses, r.nvars, t)]

\* pick_units_rayleigh(cnf_path, k, iters, avoid), given
\* sc = rayleigh_scored(file, iters).
pick_units_rayleigh(k, avoid, sc, rd) ==
    IF ~sc.ok THEN PickError
    ELSE LET scores == literal_scores_and_polarity(sc.sums, sc.nv, rd)
             order  == SortPositions(sc.nv, RayleighBefore(scores, sc.nv))
         IN  Picked(ChooseUnits(order, scores, k, avoid, <<>>))

\* --------------------------- pick_units_rayleigh of run_asr_v4_rayleigh.py
\* build_incidence: per clause the variables within range, repeats kept.
build_incidence_v4(clauses, nvars) == build_clause_vars(clauses, nvars)

\* np.array(clause_vars, dtype=object) is a 2-D array when all the lists have
\* one length; its rows are then object arrays, and indexing the float
\* vector x with a non-empty one raises an IndexError.
ObjectRows(clause_vars) ==
    /\ Len(clause_vars) >= 1
    /\ Len(clause_vars[1]) >= 1
    /\ \A j \in 1..Len(clause_vars) : Len(clause_vars[j]) = Len(clause_vars[1])

\* One round of power_iter_variable_scores: s = sum(x[vs]) counts a repeated
\* variable each time, y[vs] += s adds s once per distinct variable of vs.
power_round_v4(clause_vars, nvars, x) ==
    LET m == Len(clause_vars)
        y == [j \in 1..m |->
                SeqSum([i \in 1..Len(clause_vars[j]) |-> x[clause_vars[j][i]]])]
    IN  l2_normalize([v \in 1..nvars |->
            SeqSum([j \in 1..m |->
                      IF v \in Range(clause_vars[j]) THEN y[j] ELSE 0])])

RECURSIVE power_loop_v4(_, _, _, _)
power_loop_v4(clause_vars, nvars, x, t) ==
    IF t <= 0 THEN x
    ELSE power_loop_v4(clause_vars, nvars,
                       power_round_v4(clause_vars, nvars, x), t - 1)

power_iter_variable_scores(clause_vars, nvars, t) ==
    power_loop_v4(clause_vars, nvars, [v \in 1..nvars |-> 1], t)

\* Sign of p*p - q*q*M for p >= 0, q > 0, M >= 0, without forming the squares
\* of p and q*sqrt(M).
SqCmp(p, q, M) ==
    LET k == p \div q
        r == p % q
    IN  IF k > 46340 \/ k * k > M THEN 1
        ELSE IF k * k = M THEN (IF r = 0 THEN 0 ELSE 1)
        ELSE IF (k + 1) * (k + 1) <= M THEN -1
        ELSE LET lhs == 2 * q * k * r + r * r
                 rhs == (M - k * k) * q * q
             IN  IF lhs > rhs THEN 1 ELSE IF lhs = rhs THEN 0 ELSE -1

Sign(x) == IF x > 0 THEN 1 ELSE IF x < 0 THEN -1 ELSE 0

\* A literal's score is A/M - alpha*B/sqrt(M) with alpha = 0.15 = 3/20, where
\* x = X/sqrt(M) is the normalised vector, A sums the squared clause weights
\* of the clauses holding the literal and B the weights of those holding its
\* negation (in units of X).  ScoreCmp is the sign of score(a) - score(b).
ScoreCmp(a, b, M) ==
    LET dA == 20 * (a[1] - b[1])
        dB == 3 * (a[2] - b[2])
    IN  IF M = 0 \/ dB = 0 THEN Sign(dA)
        ELSE IF dA = 0 THEN -Sign(dB)
        ELSE IF dA > 0 /\ dB < 0 THEN 1
        ELSE IF dA < 0 /\ dB > 0 THEN -1
        ELSE IF dA > 0 THEN SqCmp(dA, dB, M)
        ELSE -SqCmp(-dA, -dB, M)

\* literal_rayleigh_proxy_scores: per variable v the scores of +v and -v as
\* pairs <<A, B>>, and M.
literal_rayleigh_proxy_scores(clauses, nvars, t) ==
    LET cv == build_incidence_v4(clauses, nvars)
        X  == power_iter_variable_scores(cv, nvars, t)
        w  == [j \in 1..Len(clauses) |->
                 SeqSum([i \in 1..Len(cv[j]) |-> X[cv[j][i]]])]
        A(lit) == SeqSum([j \in 1..Len(clauses) |->
                            w[j] * w[j] * Count(clauses[j], lit)])
        B(lit) == SeqSum([j \in 1..Len(clauses) |->
                            w[j] * Count(clauses[j], -lit)])
    IN  [M   |-> SeqSum([v \in 1..nvars |-> X[v] * X[v]]),
         pos |-> [v \in 1..nvars |-> << A(v), B(v) >>],
         neg |-> [v \in 1..nvars |-> << A(-v), B(-v) >>]]

\* best_per_var: (sp, v) when sp >= sn, else (sn, -v).
best_per_var(sc, nvars, rd) ==
    [v \in 1..nvars |->
        LET c == ScoreCmp(sc.pos[v], sc.neg[v], sc.M)
            plus == \/ c > 0
                    \/ c = 0 /\ ~(v \in rd.flip /\ sc.pos[v] # <<0, 0>>)
        IN  IF plus THEN [score |-> sc.pos[v], lit |-> v]
            ELSE [score |-> sc.neg[v], lit |-> -v]]

\* best_per_var.sort(reverse=True, key=lambda t: t[0])
BestBefore(best, nvars, M, rd) ==
    [i \in 1..nvars |-> [j \in 1..nvars |->
        LET c == ScoreCmp(best[i].score, best[j].score, M)
        IN  c > 0 \/ (c = 0 /\ rd.ulp[i] > rd.ulp[j])]]

\* pick_units_rayleigh of run_asr_v4_rayleigh.py up to the scores.  A literal
\* 0 or beyond nvars raises a KeyError in literal_rayleigh_proxy_scores.
rayleigh_v4_scored(file, t) ==
    LET r == read_dimacs(file)
    IN  IF \/ ~r.ok
           \/ ObjectRows(build_incidence_v4(r.clauses, r.nvars))
           \/ \E j \in 1..Len(r.clauses) : \E i \in 1..Len(r.clauses[j]) :
                 r.clauses[j][i] = 0 \/ Abs(r.clauses[j][i]) > r.nvars
        THEN [ok |-> FALSE, nv |-> r.nvars, sc |-> <<>>]
        ELSE [ok |-> TRUE, nv |-> r.nvars,
              sc |-> literal_rayleigh_proxy_scores(r.clauses, r.nvars, t)]

\* pick_units_rayleigh(cnf_path, k) of run_asr_v4_rayleigh.py, given
\* s = rayleigh_v4_scored(file, 25).
pick_units_rayleigh_v4(k, s, rd) ==
    IF ~s.ok THEN PickError
    ELSE LET best  == best_per_var(s.sc, s.nv, rd)
             order == SortPositions(s.nv, BestBefore(best, s.nv, s.sc.M, rd))
             top   == Slice(order, k)
         IN  Picked([i \in 1..Len(top) |-> best[top[i]].lit])

\* ------------------------------------------------- the roundings of a call
V0bRoundings(sc) ==
    IF ~sc.ok THEN { NoRounding }
    ELSE Roundings(sc.nv,
             [v \in 1..sc.nv |-> [w \in 1..sc.nv |->
                 sc.var_score[v] = sc.var_score[w]]], {})

RayleighRoundings(sc) ==
    IF ~sc.ok THEN { NoRounding }
    ELSE LET x == sc.sums.x
             p == [v \in 1..sc.nv |-> sc.sums.pos[v] + sc.sums.neg[v]]
         IN  Roundings(sc.nv,
                 [v \in 1..sc.nv |-> [w \in 1..sc.nv |->
                     x[v] * p[v] = x[w] * p[w] /\ x[v] = x[w]]],
                 { v \in 1..sc.nv :
                     sc.sums.pos[v] = sc.sums.neg[v] /\ sc.sums.pos[v] # 0 })

RayleighV4Roundings(s) ==
    IF ~s.ok THEN { NoRounding }
    ELSE LET best == best_per_var(s.sc, s.nv, ExactRounding(s.nv))
         IN  Roundings(s.nv,
                 [v \in 1..s.nv |-> [w \in 1..s.nv |->
                     ScoreCmp(best[v].score, best[w].score, s.sc.M) = 0]],
                 { v \in 1..s.nv :
                     /\ ScoreCmp(s.sc.pos[v], s.sc.neg[v], s.sc.M) = 0
                     /\ s.sc.pos[v] # <<0, 0>> })

\* The frequency picker and the score-based pickers by the name of the script
\* or of the driver that calls them: the scoring of a file, the roundings the
\* ranking can run under, and the ranking.
Scored(v, file, t) ==
    CASE v \in {"v0b", "v1"}          -> v0b_scored(file, t)
      [] v \in {"clean", "forcewalk"} -> rayleigh_scored(file, t)
      [] v = "v4"                     -> rayleigh_v4_scored(file, t)
      [] OTHER                        -> [ok |-> TRUE]

PickRoundings(v, sc) ==
    CASE v \in {"v0b", "v1"}          -> V0bRoundings(sc)
      [] v \in {"clean", "forcewalk"} -> RayleighRoundings(sc)
      [] v = "v4"                     -> RayleighV4Roundings(sc)
      [] OTHER                        -> { NoRounding }

Pick(v, file, k, avoid, sc, rd) ==
    CASE v \in {"v0b", "v1"}          -> pick_literals_asr_v0b(file, k, sc, rd)
      [] v \in {"clean", "forcewalk"} -> pick_units_rayleigh(k, avoid, sc, rd)
      [] v = "v4"                     -> pick_units_rayleigh_v4(k, sc, rd)
      [] OTHER                        -> pick_literals_freq(file, k)

\* ------------------------------- pick_random_literals of run_random_v1.py
\* The retry limit of the draw loop.
MaxTries == 2000

\* parse_cnf_num_vars: the <vars> of the first header line, 0 for None.
parse_cnf_num_vars(file) ==
    LET hs == HeaderLines(file)
    IN  IF hs = <<>> THEN 0 ELSE hs[1].nv

\* The literals a draw can give: +-v for v = randint(1, nvars).
Draws(nvars) == { l \in (-nvars)..nvars : l # 0 }

\* Whether a draw is accepted: the literal itself is not in the used set.
DrawAccepted(lit, used_set) == lit \notin used_set

\* The sequences of m accepted draws from a used set.
RECURSIVE AcceptedDraws(_, _, _)
AcceptedDraws(nvars, used_set, m) ==
    IF m <= 0 THEN { <<>> }
    ELSE UNION { { << l >> \o rest :
                     rest \in AcceptedDraws(nvars, used_set \cup {l}, m - 1) } :
                 l \in { d \in Draws(nvars) : DrawAccepted(d, used_set) } }

\* The fallback after the retry limit: the variables in ascending order, with
\* positive polarity, neither polarity used, until want_k literals are there.
\* A fallback that tests only the positive literal against the used set.
RECURSIVE fallback_scan_one_sign(_, _, _, _, _)
fallback_scan_one_sign(v, nvars, want_k, used_set, new_lits) ==
    IF v > nvars \/ Len(new_lits) >= want_k
    THEN [lits |-> new_lits, used |-> used_set]
    ELSE IF v \notin used_set
         THEN fallback_scan_one_sign(v + 1, nvars, want_k, used_set \cup {v},
                                     Append(new_lits, v))
         ELSE fallback_scan_one_sign(v + 1, nvars, want_k, used_set, new_lits)

RECURSIVE fallback_scan(_, _, _, _, _)
fallback_scan(v, nvars, want_k, used_set, new_lits) ==
    IF v > nvars \/ Len(new_lits) >= want_k
    THEN [lits |-> new_lits, used |-> used_set]
    ELSE IF v \notin used_set /\ -v \notin used_set
         THEN fallback_scan(v + 1, nvars, want_k, used_set \cup {v},
                            Append(new_lits, v))
         ELSE fallback_scan(v + 1, nvars, want_k, used_set, new_lits)

\* The results pick_random_literals can return, over all sequences of draws:
\* want_k accepted draws within the retry limit, or fewer accepted draws, the
\* other draws up to the limit rejected (a used literal drawn again), and the
\* fallback.  Each result carries the used set as the call leaves it.
pick_random_literals(file, want_k, used_set) ==
    LET nvars == parse_cnf_num_vars(file)
        done  == { [lits |-> a, used |-> used_set \cup Range(a)] :
                     a \in AcceptedDraws(nvars, used_set, Max2(want_k, 0)) }
        short == UNION { { fallback_scan(1, nvars, want_k,
                                         used_set \cup Range(a), a) :
                             a \in { b \in AcceptedDraws(nvars, used_set, m) :
                                       (used_set \cup Range(b)) \cap Draws(nvars) # {} } } :
                         m \in 0..Min2(want_k - 1, MaxTries) }
    IN  IF want_k <= 0 THEN { [lits |-> <<>>, used |-> used_set] }
        ELSE IF want_k <= MaxTries THEN done \cup short ELSE short

\* ================================================================= DrawSpec
\* pick_random_literals of run_random_v1.py step by step: one pass of its
\* while loop per step, the draw of each pass chosen freely.
\* The headers of the files of a call: one or two variables, or no header.
DrawFiles ==
    { MkFile(FALSE, 1, 0, <<>>, FALSE), MkFile(FALSE, 2, 0, <<>>, FALSE),
      << ClauseLine(<<1, -2, 0>>) >> }

DrawInit ==
    /\ variant = "random"
    /\ pc = "drawing"
    /\ curr \in DrawFiles
    /\ k_step \in 0..MaxK
    /\ used \in SUBSET Draws(2)
    /\ new_units = <<>>
    /\ tries = 0
    /\ cnf_out = NoFile
    /\ it = 0
    /\ k_added = 0
    /\ k_total = 0
    /\ max_iters = 0
    /\ iters = 1
    /\ records = <<>>
    /\ rounding = NoRounding
    /\ this_k = 0
    /\ csv_disk = <<>>
    /\ log = <<>>

\* nvars is None: die("Could not parse CNF header ...").
DrawDie ==
    /\ pc = "drawing"
    /\ HeaderLines(curr) = <<>>
    /\ pc' = "error"
    /\ UNCHANGED <<variant, curr, cnf_out, new_units, used, it, k_added,
                   k_total, k_step, max_iters, iters, records, rounding,
                   this_k, csv_disk, log, tries>>

\* A pass of the loop within the retry limit: a draw, kept when the literal
\* is not in used_set.
DrawTry ==
    /\ pc = "drawing"
    /\ HeaderLines(curr) # <<>>
    /\ Len(new_units) < k_step
    /\ tries + 1 <= MaxTries
    /\ tries' = tries + 1
    /\ \E lit \in Draws(parse_cnf_num_vars(curr)) :
          IF DrawAccepted(lit, used)
          THEN used' = used \cup {lit} /\ new_units' = Append(new_units, lit)
          ELSE UNCHANGED <<used, new_units>>
    /\ UNCHANGED <<variant, pc, curr, cnf_out, it, k_added, k_total, k_step,
                   max_iters, iters, records, rounding, this_k, csv_disk, log>>

\* The pass with tries > 2000: the fallback scan, then return new_lits.
DrawFallback ==
    /\ pc = "drawing"
    /\ HeaderLines(curr) # <<>>
    /\ Len(new_units) < k_step
    /\ tries + 1 > MaxTries
    /\ tries' = tries + 1
    /\ LET r == fallback_scan(1, parse_cnf_num_vars(curr), k_step, used,
                              new_units)
       IN  new_units' = r.lits /\ used' = r.used
    /\ pc' = "picked"
    /\ UNCHANGED <<variant, curr, cnf_out, it, k_added, k_total, k_step,
                   max_iters, iters, records, rounding, this_k, csv_disk, log>>

\* The loop condition fails: return new_lits.
DrawReturn ==
    /\ pc = "drawing"
    /\ HeaderLines(curr) # <<>>
    /\ Len(new_units) >= k_step
    /\ pc' = "picked"
    /\ UNCHANGED <<variant, curr, cnf_out, new_units, used, it, k_added,
                   k_total, k_step, max_iters, iters, records, rounding,
                   this_k, csv_disk, log, tries>>

DrawNext ==
    \/ DrawDie
    \/ DrawTry
    \/ DrawFallback
    \/ DrawReturn

\* The call is one sequential computation: it goes on while it has a step.
DrawSpec == DrawInit /\ [][DrawNext]_vars /\ WF_vars(DrawNext)

\* ================================================================== SelSpec
\* The selectors alone: one call on an input file with a requested count K, a
\* number of power-iteration rounds and, where the selector takes one, an
\* avoid / used set.
SelPool == { <<1, -2, 0>>, <<-2, 3, 0>>, <<-3, 0>>, <<1, 1, -2, 0>>, <<0>> }

\* The frequency scenario: p cnf 4 3 / 1 2 0 / -1 3 0 / 1 4 0.
FreqScenario ==
    MkFile(FALSE, 4, 0, << <<1, 2, 0>>, <<-1, 3, 0>>, <<1, 4, 0>> >>, FALSE)

SelFiles ==
    { MkFile(FALSE, 3, 0, cls, FALSE) : cls \in SeqsUpTo(SelPool, MaxClauses) }
    \cup { FreqScenario }

AvoidSets == { {}, {1, -1}, {-2} }

SelInit ==
    /\ variant \in {"freq", "v0b", "v4", "clean", "random"}
    /\ pc = "ready"
    /\ curr \in SelFiles
    /\ variant = "random" => ClauseLines(curr) = <<>>
    /\ k_step \in (-1)..MaxK
    /\ used \in AvoidSets
    /\ variant \in {"freq", "v0b", "v4"} => used = {}
    /\ iters \in 1..MaxPowerIters
    /\ variant \in {"freq", "random"} => iters = 1
    /\ cnf_out = NoFile
    /\ new_units = <<>>
    /\ it = 0
    /\ k_added = 0
    /\ k_total = 0
    /\ max_iters = 0
    /\ records = <<>>
    /\ rounding = NoRounding
    /\ this_k = 0
    /\ csv_disk = <<>>
    /\ log = <<>>
    /\ tries = 0

\* A call of the frequency picker or of a score-based picker.
SelPick ==
    /\ pc = "ready"
    /\ variant # "random"
    /\ LET sc == Scored(variant, curr, iters)
       IN  \E rd \in PickRoundings(variant, sc) :
              LET res == Pick(variant, curr, k_step, used, sc, rd)
              IN  /\ new_units' = res.lits
                  /\ pc' = IF res.ok THEN "picked" ELSE "error"
                  /\ rounding' = rd
    /\ UNCHANGED <<variant, curr, cnf_out, used, it, k_added, k_total, k_step,
                   max_iters, iters, records, this_k, csv_disk, log, tries>>

\* A call of the random picker.
SelPickRandom ==
    /\ pc = "ready"
    /\ variant = "random"
    /\ IF parse_cnf_num_vars(curr) <= 0
       THEN pc' = "error" /\ UNCHANGED <<new_units, used>>
       ELSE \E res \in pick_random_literals(curr, k_step, used) :
               /\ new_units' = res.lits
               /\ used' = res.used
               /\ pc' = "picked"
    /\ UNCHANGED <<variant, curr, cnf_out, it, k_added, k_total, k_step,
                   max_iters, iters, records, rounding,
                   this_k, csv_disk, log, tries>>

SelNext == SelPick \/ SelPickRandom

SelSpec == SelInit /\ [][SelNext]_vars

\* =================================================================== MutSpec
\* The mutators alone: a file is mutated again and again, each time with an
\* arbitrary literal list (repeats and contradictory pairs included), the
\* way a driver chains iteration artifacts (curr = next_cnf).
MutPool == { <<1, -2, 0>>, <<2, -3>>, <<1, 1, 0>>, <<0>> }

MutLits == {1, -1}

MutFiles ==
    { MkFile(c, 3, off, cls, c) :
        c \in BOOLEAN, off \in {0, 1}, cls \in SeqsUpTo(MutPool, MaxClauses) }

MutInit ==
    /\ variant \in {"apply_units", "add_unit_clauses"}
    /\ pc = "ready"
    /\ curr \in MutFiles
    /\ cnf_out = NoFile
    /\ new_units = <<>>
    /\ used = {}
    /\ it = 0
    /\ k_added = 0
    /\ k_total = 0
    /\ k_step = 0
    /\ max_iters = 0
    /\ iters = 0
    /\ records = <<>>
    /\ rounding = NoRounding
    /\ this_k = 0
    /\ csv_disk = <<>>
    /\ log = <<>>
    /\ tries = 0

\* One run of the mutator on curr: the output file is written, or the
\* mutator exits with an error and writes nothing.
MutApply ==
    /\ pc = "ready"
    /\ it < MaxAdded
    /\ \E L \in SeqsUpTo(MutLits, MaxAdded - k_added) :
          LET out == Mutator(variant, curr, L)
          IN  /\ new_units' = L
              /\ cnf_out' = out
              /\ pc' = IF out = NoFile THEN "error" ELSE "mutated"
              /\ k_added' = IF out = NoFile THEN k_added ELSE k_added + Len(L)
    /\ it' = it + 1
    /\ UNCHANGED <<variant, curr, used, k_total, k_step, max_iters, iters,
                   records, rounding,
                   this_k, csv_disk, log, tries>>

\* The driver's "curr = next_cnf".
MutAdvance ==
    /\ pc = "mutated"
    /\ curr' = cnf_out
    /\ pc' = "ready"
    /\ UNCHANGED <<variant, cnf_out, new_units, used, it, k_added, k_total,
                   k_step, max_iters, iters, records, rounding,
                   this_k, csv_disk, log, tries>>

MutNext == MutApply \/ MutAdvance

MutSpec == MutInit /\ [][MutNext]_vars

\* =================================================================== RunSpec
\* The iteration controllers: run_asr_v1.py ("v1"), run_random_v1.py
\* ("random"), run_asr_v4_rayleigh.py ("v4"), run_asr_v4_rayleigh_clean.py
\* ("clean") and run_asr_v4_forcewalk.py ("forcewalk").  The solver is the
\* environment: every solve gives one of the outcomes a log can parse to.
\* The drivers fix the number of power-iteration rounds (25, and 20 in the
\* v0b script); a run here uses MaxPowerIters rounds.
MaxIters == 2

BudgetVariants == {"v1", "random"}

AvoidVariants == {"clean", "forcewalk"}

\* What parse_glucose_output / parse_glucose_log give for a log: the status,
\* and the conflict count when a "c conflicts" line was parsed.  Without a
\* status line the status stays None ("UNKNOWN" in the v4 drivers).
NoStatus(v) == IF v \in BudgetVariants THEN "None" ELSE "UNKNOWN"

SolveOutcomes(v) ==
    { [status |-> "SAT",       parsed |-> TRUE,  conflicts |-> 0],
      [status |-> "UNSAT",     parsed |-> TRUE,  conflicts |-> 1],
      [status |-> NoStatus(v), parsed |-> TRUE,  conflicts |-> 0],
      [status |-> NoStatus(v), parsed |-> FALSE, conflicts |-> 0] }

\* conflicts == 0 and status in ("SAT", "UNSAT")
Solved0(out) ==
    out.parsed /\ out.conflicts = 0 /\ out.status \in {"SAT", "UNSAT"}

\* A stop test that never ends the run.
StopNever(v, out) == FALSE

\* A stop test that ends the run on any verdict, whatever the conflict count.
StopOnAnyVerdict(v, out) == out.status \in {"SAT", "UNSAT"}

\* The stop test after the solve of an iteration it >= 1.
StopTest(v, out) ==
    IF v = "clean" THEN out.status \in {"SAT", "UNSAT"} ELSE Solved0(out)

\* The CSV row of an iteration.
Row(i, total, units, out) ==
    [iter |-> i, k_added_total |-> total, new_units |-> units,
     status |-> out.status, parsed |-> out.parsed, conflicts |-> out.conflicts]

\* A driver that requests k_step literals whatever is left of the budget.
ThisKUncapped(total, added, step) == step

\* this_k = k_step if remaining >= k_step else remaining
ThisK(total, added, step) ==
    IF total - added >= step THEN step ELSE total - added

\* The literal lists a driver can get from its picker on a file, each with
\* the used set as the call leaves it.  pick_literals of run_asr_v1.py dies
\* when the script fails or prints fewer than k literals, and keeps lits[:k].
PickOutcomes(v, file, k, t, avoid) ==
    IF v = "random"
    THEN IF parse_cnf_num_vars(file) <= 0
         THEN { [ok |-> FALSE, lits |-> <<>>, used |-> avoid] }
         ELSE { [ok |-> TRUE, lits |-> r.lits, used |-> r.used] :
                  r \in pick_random_literals(file, k, avoid) }
    ELSE LET sc == Scored(v, file, t)
         IN  { LET res == Pick(v, file, k, avoid, sc, rd)
               IN  IF v = "v1"
                   THEN [ok   |-> res.ok /\ Len(res.lits) >= k,
                         lits |-> Slice(res.lits, k), used |-> avoid]
                   ELSE [ok |-> res.ok, lits |-> res.lits, used |-> avoid] :
                 rd \in PickRoundings(v, sc) }

\* for lit in new_units: avoid.add(lit); avoid.add(-lit)
AddBothSigns(avoid, lits) ==
    avoid \cup Range(lits) \cup { -l : l \in Range(lits) }

RunPool == { <<1, -2, 0>>, <<-3, 0>> }

\* Inputs that are not DIMACS: no header line, and a header whose <vars> is 0.
MalformedFiles ==
    { << ClauseLine(<<1, -2, 0>>) >>, << HeaderLine(0, 0) >> }

\* Input files: over 3 variables with up to MaxClauses clauses, over 2
\* variables with at most one clause (a literal -3 or 3 is then out of range),
\* over 1 variable without clauses, and the malformed ones.
RunFiles ==
    { MkFile(FALSE, 3, 0, cls, FALSE) : cls \in SeqsUpTo(RunPool, MaxClauses) }
    \cup { MkFile(FALSE, 2, 0, cls, FALSE) : cls \in SeqsUpTo(RunPool, 1) }
    \cup { MkFile(FALSE, 1, 0, <<>>, FALSE) }
    \cup MalformedFiles

\* sys.exit(1) of die() and the traceback of an uncaught exception give exit
\* code 1; a main() that returns ("Done. CSV written", also after the
\* "not enough unique units" break) gives 0.  -1: the process is running.
ExitCode(p) ==
    CASE p = "error"            -> 1
      [] p \in {"done", "short"} -> 0
      [] OTHER                   -> -1

\* The rows of the CSV file on disk.  run_asr_v1.py, run_random_v1.py and
\* run_asr_v4_rayleigh.py open the file in append mode for every row and
\* close it; the clean and force-walk drivers hold one file object open
\* around the whole loop, so their rows are in the file object's buffer (a
\* run of MaxIters rows never fills it) until the with block is left.
Durable(v, next_pc, rows, disk) ==
    IF v \in AvoidVariants /\ next_pc = "loop" THEN disk ELSE rows

RunInit ==
    /\ variant \in BudgetVariants \cup AvoidVariants \cup {"v4"}
    /\ pc = "baseline"
    /\ curr \in RunFiles
    /\ variant = "random" =>
          /\ parse_cnf_num_vars(curr) <= 2
          /\ ClauseLines(curr) = <<>> \/ HeaderLines(curr) = <<>>
    /\ k_total \in 0..MaxAdded
    /\ variant \notin BudgetVariants => k_total = 0
    /\ k_step \in 0..MaxK
    /\ max_iters \in (-1)..MaxIters
    /\ variant \in BudgetVariants => max_iters = 0
    /\ iters = IF variant = "random" THEN 1 ELSE MaxPowerIters
    /\ cnf_out = NoFile
    /\ new_units = <<>>
    /\ used = {}
    /\ it = 0
    /\ k_added = 0
    /\ records = <<>>
    /\ rounding = NoRounding
    /\ this_k = 0
    /\ csv_disk = <<>>
    /\ log = <<>>
    /\ tries = 0

\* run_asr_v1.py and run_random_v1.py up to the loop: the parameter checks,
\* the iter0 copy, the baseline solve and its row.
RunBaselineBudget ==
    /\ pc = "baseline"
    /\ variant \in BudgetVariants
    /\ IF k_total <= 0 \/ k_step <= 0 \/ k_step > k_total
       THEN pc' = "error" /\ UNCHANGED <<records, csv_disk>>
       ELSE \E out \in SolveOutcomes(variant) :
               /\ records' = << Row(0, 0, <<>>, out) >>
               /\ csv_disk' = records'
               /\ pc' = "loop"
    /\ UNCHANGED <<variant, curr, cnf_out, new_units, used, it, k_added,
                   k_total, k_step, max_iters, iters, rounding, this_k,
                   log, tries>>

\* Iteration 0 of run_asr_v4_rayleigh.py: the input is read and written out
\* as the iter0 artifact, solved and recorded.
RunBaselineV4 ==
    /\ pc = "baseline"
    /\ variant = "v4"
    /\ IF max_iters < 0
       THEN pc' = "done" /\ UNCHANGED <<curr, cnf_out, records, csv_disk>>
       ELSE LET r == read_dimacs(curr)
            IN  IF ~r.ok
                THEN /\ pc' = "error"
                     /\ UNCHANGED <<curr, cnf_out, records, csv_disk>>
                ELSE \E out \in SolveOutcomes(variant) :
                        /\ cnf_out' = write_dimacs(r.nvars, r.clauses, r.comments)
                        /\ records' = << Row(0, 0, <<>>, out) >>
                        /\ csv_disk' = records'
                        /\ IF Solved0(out)
                           THEN pc' = "done" /\ UNCHANGED curr
                           ELSE pc' = "loop" /\ curr' = cnf_out'
    /\ UNCHANGED <<variant, new_units, used, it, k_added, k_total, k_step,
                   max_iters, iters, rounding, this_k, log, tries>>

\* The baseline of run_asr_v4_rayleigh_clean.py (iteration 0 of its loop) and
\* of run_asr_v4_forcewalk.py (before its loop).
RunBaselineAvoid ==
    /\ pc = "baseline"
    /\ variant \in AvoidVariants
    /\ IF variant = "clean" /\ max_iters < 0
       THEN pc' = "done" /\ UNCHANGED <<records, csv_disk>>
       ELSE \E out \in SolveOutcomes(variant) :
               /\ records' = << Row(0, 0, <<>>, out) >>
               /\ pc' = IF variant = "clean"
                        THEN IF out.status \in {"SAT", "UNSAT"}
                             THEN "done" ELSE "loop"
                        ELSE IF Solved0(out) THEN "done" ELSE "loop"
               /\ csv_disk' = Durable(variant, pc', records', csv_disk)
    /\ UNCHANGED <<variant, curr, cnf_out, new_units, used, it, k_added,
                   k_total, k_step, max_iters, iters, rounding, this_k,
                   log, tries>>

\* One iteration of "while k_added < k_total" in run_asr_v1.py and
\* run_random_v1.py: pick, apply_units, solve, row, stop test.
RunIterateBudget ==
    /\ pc = "loop"
    /\ variant \in BudgetVariants
    /\ k_added < k_total
    /\ it' = it + 1
    /\ this_k' = ThisK(k_total, k_added, k_step)
    /\ \E p \in PickOutcomes(variant, curr, this_k', iters, used) :
          LET next_cnf == Mutator(variant, curr, p.lits)
          IN  /\ new_units' = p.lits
              /\ used' = p.used
              /\ IF ~p.ok \/ next_cnf = NoFile
                 THEN /\ pc' = "error"
                      /\ UNCHANGED <<curr, cnf_out, k_added, records, csv_disk>>
                 ELSE \E out \in SolveOutcomes(variant) :
                         /\ cnf_out' = next_cnf
                         /\ k_added' = k_added + this_k'
                         /\ records' = Append(records,
                                Row(it', k_added', p.lits, out))
                         /\ csv_disk' = records'
                         /\ curr' = next_cnf
                         /\ pc' = IF StopTest(variant, out)
                                  THEN "done" ELSE "loop"
    /\ UNCHANGED <<variant, k_total, k_step, max_iters, iters, rounding,
                   log, tries>>

\* One iteration it >= 1 of run_asr_v4_rayleigh.py.
RunIterateV4 ==
    /\ pc = "loop"
    /\ variant = "v4"
    /\ it < max_iters
    /\ it' = it + 1
    /\ this_k' = k_step
    /\ \E p \in PickOutcomes(variant, curr, k_step, iters, used) :
          /\ new_units' = p.lits
          /\ IF ~p.ok
             THEN /\ pc' = "error"
                  /\ UNCHANGED <<curr, cnf_out, k_total, records, csv_disk>>
             ELSE \E out \in SolveOutcomes(variant) :
                    /\ k_total' = k_total + Len(p.lits)
                    /\ cnf_out' = Mutator(variant, curr, p.lits)
                    /\ records' = Append(records,
                                         Row(it', k_total', p.lits, out))
                    /\ csv_disk' = records'
                    /\ IF Solved0(out)
                       THEN pc' = "done" /\ UNCHANGED curr
                       ELSE pc' = "loop" /\ curr' = cnf_out'
    /\ UNCHANGED <<variant, used, k_added, k_step, max_iters, iters, rounding,
                   log, tries>>

\* One iteration it >= 1 of run_asr_v4_rayleigh_clean.py and
\* run_asr_v4_forcewalk.py; fewer than k_per_iter units end the loop.
RunIterateAvoid ==
    /\ pc = "loop"
    /\ variant \in AvoidVariants
    /\ it < max_iters
    /\ it' = it + 1
    /\ this_k' = k_step
    /\ \E p \in PickOutcomes(variant, curr, k_step, iters, used) :
          /\ new_units' = p.lits
          /\ IF ~p.ok \/ Len(p.lits) < k_step
             THEN /\ pc' = IF p.ok THEN "short" ELSE "error"
                  /\ csv_disk' = records
                  /\ UNCHANGED <<curr, cnf_out, used, k_total, records>>
             ELSE \E out \in SolveOutcomes(variant) :
                    /\ used' = AddBothSigns(used, p.lits)
                    /\ k_total' = k_total + Len(p.lits)
                    /\ cnf_out' = Mutator(variant, curr, p.lits)
                    /\ records' = Append(records,
                                         Row(it', k_total', p.lits, out))
                    /\ IF StopTest(variant, out)
                       THEN pc' = "done" /\ UNCHANGED curr
                       ELSE pc' = "loop" /\ curr' = cnf_out'
                    /\ csv_disk' = Durable(variant, pc', records', csv_disk)
    /\ UNCHANGED <<variant, k_added, k_step, max_iters, iters, rounding,
                   log, tries>>

\* The loop condition fails: the driver prints "Done" and exits.
RunFinish ==
    /\ pc = "loop"
    /\ IF variant \in BudgetVariants THEN k_added >= k_total
                                     ELSE it >= max_iters
    /\ pc' = "done"
    /\ csv_disk' = records
    /\ UNCHANGED <<variant, curr, cnf_out, new_units, used, it, k_added,
                   k_total, k_step, max_iters, iters, records, rounding,
                   this_k, log, tries>>

RunNext ==
    \/ RunBaselineBudget
    \/ RunBaselineV4
    \/ RunBaselineAvoid
    \/ RunIterateBudget
    \/ RunIterateV4
    \/ RunIterateAvoid
    \/ RunFinish

RunSpec == RunInit /\ [][RunNext]_vars

\* A driver between two steps: before the baseline or at the loop test.
Running == pc \in {"baseline", "loop"}

\* A run of run_asr_v1.py or run_random_v1.py alone, and its steps.
BudgetInit == RunInit /\ variant \in BudgetVariants

BudgetNext ==
    \/ RunBaselineBudget
    \/ RunIterateBudget
    \/ RunFinish

\* The drivers run the solver synchronously and go on when it returns: a run
\* that can take a step takes one.  This is WF_vars(BudgetNext) with
\* ENABLED <<BudgetNext>>_vars written as the state predicate it equals:
\* every Running state has a step (the baseline, an iteration or RunFinish)
\* and no other state has one.
BudgetFairSpec ==
    /\ BudgetInit
    /\ [][BudgetNext]_vars
    /\ ([]<>(~Running) \/ []<><<BudgetNext>>_vars)

\* The process is terminated from outside (SIGKILL) while a run is under
\* way.  Nothing runs any more: rows still held in the buffer of the open
\* CSV file object of run_asr_v4_rayleigh_clean.py / run_asr_v4_forcewalk.py
\* never reach the file; csv_disk is what the file holds.
RunCrash ==
    /\ Running
    /\ pc' = "killed"
    /\ UNCHANGED <<variant, curr, cnf_out, new_units, used, it, k_added,
                   k_total, k_step, max_iters, iters, records, rounding,
                   this_k, csv_disk, log, tries>>

CrashNext ==
    \/ RunNext
    \/ RunCrash

CrashSpec == RunInit /\ [][CrashNext]_vars

\* ================================================================== LogSpec
\* The solver adapters: parse_glucose_output of run_asr_v1.py and
\* run_random_v1.py, parse_glucose_log of the clean and force-walk drivers,
\* and parse_glucose_log of run_asr_v4_rayleigh.py.  A solver report is a
\* sequence of lines and a line a sequence of characters, so that
\* startswith, "in", strip, split and int are computed on the text.
\* Most lines of a solver report.
MaxLogLines == 3

StartsWith(s, p) == Len(s) >= Len(p) /\ SubSeq(s, 1, Len(p)) = p

\* p in s
Contains(s, p) ==
    \E i \in 1..(Len(s) - Len(p) + 1) : SubSeq(s, i, i + Len(p) - 1) = p

RECURSIVE LStrip(_)
LStrip(s) == IF s # <<>> /\ Head(s) = " " THEN LStrip(Tail(s)) ELSE s

RECURSIVE RStrip(_)
RStrip(s) ==
    IF s # <<>> /\ s[Len(s)] = " " THEN RStrip(SubSeq(s, 1, Len(s) - 1)) ELSE s

\* s.strip()
Strip(s) == RStrip(LStrip(s))

\* s.split(ch): the fields between the occurrences of ch, empty ones kept.
RECURSIVE SplitOn(_, _)
SplitOn(s, ch) ==
    IF \A i \in 1..Len(s) : s[i] # ch THEN << s >>
    ELSE LET i == CHOOSE j \in 1..Len(s) :
                     s[j] = ch /\ \A m \in 1..(j - 1) : s[m] # ch
         IN  << SubSeq(s, 1, i - 1) >> \o SplitOn(SubSeq(s, i + 1, Len(s)), ch)

\* s.split(): the fields between runs of blanks, no empty field.
SplitBlank(s) == SelectSeq(SplitOn(s, " "), LAMBDA f : f # <<>>)

\* s.replace(a, b) for single characters.
Replace(s, a, b) == [i \in 1..Len(s) |-> IF s[i] = a THEN b ELSE s[i]]

Digits == <<"0", "1", "2", "3", "4", "5", "6", "7", "8", "9">>

IsDigit(c) == \E d \in 1..10 : Digits[d] = c

DigitValue(c) == (CHOOSE d \in 1..10 : Digits[d] = c) - 1

\* The longest prefix of digits.
RECURSIVE LeadingDigits(_)
LeadingDigits(s) ==
    IF s # <<>> /\ IsDigit(Head(s))
    THEN << Head(s) >> \o LeadingDigits(Tail(s))
    ELSE <<>>

RECURSIVE DecimalValue(_)
DecimalValue(ds) ==
    IF ds = <<>> THEN 0
    ELSE 10 * DecimalValue(SubSeq(ds, 1, Len(ds) - 1)) + DigitValue(ds[Len(ds)])

\* Whether int(tok) returns: an optional sign and at least one digit.
IsInt(tok) ==
    LET ds == IF tok # <<>> /\ Head(tok) \in {"+", "-"} THEN Tail(tok) ELSE tok
    IN  ds # <<>> /\ \A i \in 1..Len(ds) : IsDigit(ds[i])

\* int(tok) for a token int accepts.
IntValue(tok) ==
    IF Head(tok) = "-" THEN 0 - DecimalValue(Tail(tok))
    ELSE IF Head(tok) = "+" THEN DecimalValue(Tail(tok))
    ELSE DecimalValue(tok)

\* Whether float(tok) returns, for tokens of digits and points: digits with
\* at most one decimal point.
IsFloat(tok) ==
    /\ \E i \in 1..Len(tok) : IsDigit(tok[i])
    /\ \A i \in 1..Len(tok) : IsDigit(tok[i]) \/ tok[i] = "."
    /\ \A i, j \in 1..Len(tok) : (tok[i] = "." /\ tok[j] = ".") => i = j

UpperLetters == <<"A", "B", "C", "D", "E", "F", "G", "H", "I", "J", "K", "L",
                   "M", "N", "O", "P", "Q", "R", "S", "T", "U", "V", "W", "X",
                   "Y", "Z">>

LowerLetters == <<"a", "b", "c", "d", "e", "f", "g", "h", "i", "j", "k", "l",
                   "m", "n", "o", "p", "q", "r", "s", "t", "u", "v", "w", "x",
                   "y", "z">>

\* s.lower()
Lower(s) ==
    [i \in 1..Len(s) |->
        IF \E n \in 1..26 : UpperLetters[n] = s[i]
        THEN LowerLetters[CHOOSE n \in 1..26 : UpperLetters[n] = s[i]]
        ELSE s[i]]

\* The words the parsers look for.
SATISFIABLE == <<"S", "A", "T", "I", "S", "F", "I", "A", "B", "L", "E">>

UNSATISFIABLE == <<"U", "N", "S", "A", "T", "I", "S", "F", "I", "A", "B", "L",
                    "E">>

UNSAT == <<"U", "N", "S", "A", "T">>

StatusMark == <<"s", " ">>

ConflictsLabel == <<"c", " ", "c", "o", "n", "f", "l", "i", "c", "t", "s">>

CpuLabel == <<"c", " ", "C", "P", "U", " ", "t", "i", "m", "e">>

\* The status, conflicts and cpu_time of parse_glucose_output before the
\* first line: None each.  `parsed` tells that conflicts holds a count, and
\* cpu is the text float() accepted, <<>> for None.
\* A parser whose conflict count starts at 0 instead of "not reported".
NoResultZero(status) ==
    [status |-> status, parsed |-> TRUE, conflicts |-> 0, cpu |-> <<>>]

NoResult(status) ==
    [status |-> status, parsed |-> FALSE, conflicts |-> 0, cpu |-> <<>>]

\* One line of parse_glucose_output (run_asr_v1.py, run_random_v1.py).
output_line(acc, line) ==
    LET s  == Strip(line)
        a1 == IF StartsWith(s, StatusMark)
              THEN IF Contains(s, UNSATISFIABLE)
                   THEN [acc EXCEPT !.status = "UNSAT"]
                   ELSE IF Contains(s, SATISFIABLE)
                        THEN [acc EXCEPT !.status = "SAT"]
                        ELSE acc
              ELSE acc
        a2 == IF StartsWith(s, ConflictsLabel)
              THEN LET parts == SplitOn(s, ":")
                   IN  IF Len(parts) >= 2
                       THEN LET num == LeadingDigits(Strip(parts[2]))
                            IN  IF num # <<>>
                                THEN [a1 EXCEPT !.parsed = TRUE,
                                                !.conflicts = DecimalValue(num)]
                                ELSE a1
                       ELSE a1
              ELSE a1
        a3 == IF StartsWith(s, CpuLabel)
              THEN LET parts == SplitOn(s, ":")
                   IN  IF Len(parts) >= 2
                       THEN LET tok == SplitBlank(Strip(parts[2]))
                            IN  IF tok # <<>> /\ IsFloat(tok[1])
                                THEN [a2 EXCEPT !.cpu = tok[1]]
                                ELSE a2
                       ELSE a2
              ELSE a2
    IN  a3

\* The first token after a token "conflicts" that int accepts wins over the
\* earlier ones: the loop over the tokens assigns at every such position.
RECURSIVE conflicts_tokens(_, _, _)
conflicts_tokens(acc, parts, i) ==
    IF i > Len(parts) THEN acc
    ELSE conflicts_tokens(
             IF parts[i] = SubSeq(ConflictsLabel, 3, Len(ConflictsLabel))
                /\ i + 1 <= Len(parts) /\ IsInt(parts[i + 1])
             THEN [acc EXCEPT !.parsed = TRUE,
                              !.conflicts = IntValue(parts[i + 1])]
             ELSE acc,
             parts, i + 1)

\* The status test of both parse_glucose_log functions.
log_status(acc, s) ==
    IF StartsWith(s, StatusMark)
    THEN IF Contains(s, SATISFIABLE) /\ ~Contains(s, UNSAT)
         THEN [acc EXCEPT !.status = "SAT"]
         ELSE IF Contains(s, UNSATISFIABLE)
              THEN [acc EXCEPT !.status = "UNSAT"]
              ELSE acc
    ELSE acc

\* One line of parse_glucose_log of the clean and force-walk drivers.
log_line(acc, line) ==
    LET s  == Strip(line)
        a1 == log_status(acc, s)
        a2 == IF StartsWith(s, ConflictsLabel)
              THEN conflicts_tokens(a1, SplitBlank(Replace(s, ":", " ")), 1)
              ELSE a1
        a3 == IF StartsWith(s, CpuLabel)
              THEN LET parts == SplitBlank(Replace(s, ":", " "))
                       n     == Len(parts)
                       tok   == IF parts[n] = << "s" >>
                                THEN parts[n - 1] ELSE parts[n]
                   IN  IF IsFloat(tok) THEN [a2 EXCEPT !.cpu = tok] ELSE a2
              ELSE a2
    IN  a3

\* One line of parse_glucose_log of run_asr_v4_rayleigh.py.
log_line_v4(acc, line) ==
    LET s  == Strip(line)
        a1 == log_status(acc, s)
        a2 == IF StartsWith(Lower(s), Lower(ConflictsLabel))
              THEN LET parts == SplitOn(s, ":")
                   IN  IF Len(parts) >= 2
                       THEN LET rhs == SplitBlank(Strip(parts[2]))
                            IN  IF rhs # <<>> /\ IsInt(rhs[1])
                                THEN [a1 EXCEPT !.parsed = TRUE,
                                                !.conflicts = IntValue(rhs[1])]
                                ELSE a1
                       ELSE a1
              ELSE a1
        a3 == IF StartsWith(Lower(s), Lower(CpuLabel))
              THEN LET parts == SplitOn(s, ":")
                   IN  IF Len(parts) >= 2
                       THEN LET rhs == SplitBlank(Strip(parts[2]))
                            IN  IF rhs # <<>> /\ IsFloat(rhs[1])
                                THEN [a2 EXCEPT !.cpu = rhs[1]]
                                ELSE a2
                       ELSE a2
              ELSE a2
    IN  a3

\* The lines of a report folded from the first to the last.
RECURSIVE parse_lines(_, _, _)
parse_lines(v, acc, text) ==
    IF text = <<>> THEN acc
    ELSE parse_lines(v,
                     CASE v \in BudgetVariants -> output_line(acc, Head(text))
                       [] v \in AvoidVariants  -> log_line(acc, Head(text))
                       [] OTHER                -> log_line_v4(acc, Head(text)),
                     Tail(text))

parse_glucose_output(text) == parse_lines("v1", NoResult("None"), text)

parse_glucose_log(text) == parse_lines("clean", NoResult("UNKNOWN"), text)

parse_glucose_log_v4(text) == parse_lines("v4", NoResult("UNKNOWN"), text)

\* The solver adapter of a driver.
ParseReport(v, text) ==
    CASE v \in BudgetVariants -> parse_glucose_output(text)
      [] v \in AvoidVariants  -> parse_glucose_log(text)
      [] OTHER                -> parse_glucose_log_v4(text)

\* Lines of solver reports: the three status lines Glucose prints, a status
\* line behind blanks, a comment that carries a verdict word, conflict lines
\* with a count of 0, a count of 7 and no count, and a CPU time line.
LogPool ==
    { <<"s", " ", "S", "A", "T", "I", "S", "F", "I", "A", "B", "L", "E">>,
      <<"s", " ", "U", "N", "S", "A", "T", "I", "S", "F", "I", "A", "B", "L",
         "E">>,
      <<"s", " ", "I", "N", "D", "E", "T", "E", "R", "M", "I", "N", "A", "T",
         "E">>,
      <<" ", " ", "s", " ", "S", "A", "T", "I", "S", "F", "I", "A", "B", "L",
         "E">>,
      <<"c", " ", "S", "A", "T", "I", "S", "F", "I", "A", "B", "L", "E">>,
      <<"c", " ", "c", "o", "n", "f", "l", "i", "c", "t", "s", " ", ":", " ",
         "0", " ", "(", "0", " ", "/", "s", "e", "c", ")">>,
      <<"c", " ", "c", "o", "n", "f", "l", "i", "c", "t", "s", " ", ":", " ",
         "7">>,
      <<"c", " ", "c", "o", "n", "f", "l", "i", "c", "t", "s", " ", ":", " ",
         "n", "/", "a">>,
      <<"c", " ", "C", "P", "U", " ", "t", "i", "m", "e", " ", ":", " ", "0",
         ".", "0", "0", "4", " ", "s">> }

\* The report of the scenario: UNSATISFIABLE, 0 conflicts, 0.004 s.
ScenarioLog ==
    << <<"s", " ", "U", "N", "S", "A", "T", "I", "S", "F", "I", "A", "B", "L",
          "E">>,
       <<"c", " ", "c", "o", "n", "f", "l", "i", "c", "t", "s", " ", ":", " ",
          "0", " ", "(", "0", " ", "/", "s", "e", "c", ")">>,
       <<"c", " ", "C", "P", "U", " ", "t", "i", "m", "e", " ", ":", " ", "0",
          ".", "0", "0", "4", " ", "s">> >>

LogInit ==
    /\ variant \in BudgetVariants \cup AvoidVariants \cup {"v4"}
    /\ pc = "solved"
    /\ log \in SeqsUpTo(LogPool, MaxLogLines)
    /\ tries = 0
    /\ curr = NoFile
    /\ cnf_out = NoFile
    /\ new_units = <<>>
    /\ used = {}
    /\ it = 0
    /\ k_added = 0
    /\ k_total = 0
    /\ k_step = 0
    /\ max_iters = 0
    /\ iters = 0
    /\ records = <<>>
    /\ rounding = NoRounding
    /\ this_k = 0
    /\ csv_disk = <<>>

\* The driver parses the report of a solve and writes the row.
LogParse ==
    /\ pc = "solved"
    /\ records' = << Row(0, 0, <<>>, ParseReport(variant, log)) >>
    /\ pc' = "parsed"
    /\ UNCHANGED <<variant, curr, cnf_out, new_units, used, it, k_added,
                   k_total, k_step, max_iters, iters, rounding, this_k,
                   csv_disk, log, tries>>

LogNext == LogParse

LogSpec == LogInit /\ [][LogNext]_vars

\* ================================================================ CodecSpec
\* read_dimacs and write_dimacs of the v4 drivers as a codec: a text is
\* read and written back, as iteration 0 of run_asr_v4_rayleigh.py does with
\* its input.
\* Most lines of a text.
MaxDimacsLines == 3

\* The lines of the texts: two comments, two headers (one with a stale
\* clause count), a clause, a clause without the terminating 0, an explicit
\* empty clause and a clause whose last literal token is itself a 0.
CodecPool ==
    { CommentLine(1), CommentLine(2), HeaderLine(2, 1), HeaderLine(3, 0),
      ClauseLine(<<1, -2, 0>>), ClauseLine(<<2, -3>>), ClauseLine(<<0>>),
      ClauseLine(<<1, 0, 0>>) }

CodecInit ==
    /\ variant = "v4"
    /\ pc = "input"
    /\ curr \in SeqsUpTo(CodecPool, MaxDimacsLines)
    /\ cnf_out = NoFile
    /\ new_units = <<>>
    /\ used = {}
    /\ it = 0
    /\ k_added = 0
    /\ k_total = 0
    /\ k_step = 0
    /\ max_iters = 0
    /\ iters = 0
    /\ records = <<>>
    /\ rounding = NoRounding
    /\ this_k = 0
    /\ csv_disk = <<>>
    /\ log = <<>>
    /\ tries = 0

\* nvars, clauses, comments = read_dimacs(curr_cnf);
\* write_dimacs(cnf_out, nvars, clauses, comments); a text without a valid
\* header raises ValueError.
CodecRewrite ==
    /\ pc = "input"
    /\ LET r == read_dimacs(curr)
       IN  IF r.ok
           THEN /\ cnf_out' = write_dimacs(r.nvars, r.clauses, r.comments)
                /\ pc' = "written"
           ELSE /\ pc' = "error"
                /\ UNCHANGED cnf_out
    /\ UNCHANGED <<variant, curr, new_units, used, it, k_added, k_total,
                   k_step, max_iters, iters, records, rounding, this_k,
                   csv_disk, log, tries>>

CodecNext == CodecRewrite

CodecSpec == CodecInit /\ [][CodecNext]_vars

C2_HeaderCountIsActual ==
    pc = "mutated" =>
        HeaderLines(cnf_out)[1].nc = Len(ClauseLines(cnf_out))

\* ------------------------------------------- notions the statements share
\* The variables of a literal list.
VarsOf(lits) == { Abs(l) : l \in Range(lits) }

\* No variable twice in a literal list (neither a literal twice nor v and -v).
DistinctVars(lits) ==
    \A a, b \in 1..Len(lits) : a # b => Abs(lits[a]) # Abs(lits[b])

\* The occurrences of a literal in the clauses of a file, read off the
\* clause lines (the tokens before the terminating 0).
RECURSIVE TokensBeforeZero(_)
TokensBeforeZero(toks) ==
    IF toks = <<>> \/ Head(toks) = 0 THEN {}
    ELSE {1} \cup { i + 1 : i \in TokensBeforeZero(Tail(toks)) }

LitCount(file, lit) ==
    LET cl == ClauseLines(file)
    IN  Cardinality(UNION { { << j, i >> :
                                i \in { n \in TokensBeforeZero(cl[j].toks) :
                                          cl[j].toks[n] = lit } } :
                            j \in 1..Len(cl) })

VarOccurs(file, v) == LitCount(file, v) + LitCount(file, -v) > 0

\* The units of the rows of a run, row by row.
RowsDisjoint ==
    \A i, j \in 1..Len(records) :
        i < j => VarsOf(records[i].new_units) \cap VarsOf(records[j].new_units) = {}

\* C3: in the force-walk and clean controllers the variables of the units
\* added at two different iterations of a run are disjoint.
C3_AvoidNeverReselects ==
    variant \in AvoidVariants => RowsDisjoint

\* C3 witness: a force-walk or clean run on a file with clauses has added
\* units in two iterations, the second selection made on the file that holds
\* the first units.
C3_Witness ==
    /\ variant \in AvoidVariants
    /\ Len(records) = 3
    /\ records[2].new_units # <<>>
    /\ records[3].new_units # <<>>
    /\ k_step >= 1
    /\ Len(ClauseLines(cnf_out)) >= 4
    /\ Cardinality(used) >= 4

\* C4 (as claimed): over a run of the random control no two returned
\* literals have the same variable, within one call and across calls.
C4_RandomNeverRepeatsVariable ==
    variant = "random" =>
        /\ RowsDisjoint
        /\ \A i \in 1..Len(records) : DistinctVars(records[i].new_units)

\* C5 (as claimed): in the v1 and v4 controllers no unit added at an
\* iteration has the variable of a unit added at an earlier iteration.
C5_FreshSelectionNeverReselects ==
    variant \in {"v1", "v4"} => RowsDisjoint

\* C6 (as claimed): a selection policy called with K >= 1 that does not end
\* in an error returns exactly K pairwise distinct literals.
C6_ExactlyKLiterals ==
    (pc = "picked" /\ variant \in {"freq", "v0b", "random"} /\ k_step >= 1) =>
        /\ Len(new_units) = k_step
        /\ \A a, b \in 1..Len(new_units) : a # b => new_units[a] # new_units[b]

\* C7: the list returned by spectral top-K and by frequency top-K for K >= 1
\* has no variable twice (so never both polarities) and only variables that
\* occur in a clause of the scored CNF.
C7_SelectionValid ==
    (pc = "picked" /\ variant \in {"freq", "v0b"} /\ k_step >= 1) =>
        /\ DistinctVars(new_units)
        /\ \A v \in VarsOf(new_units) : VarOccurs(curr, v)

\* C7 witness: a top-K call with K above the number of occurring variables,
\* on a file with a variable that occurs nowhere, has returned two literals.
C7_Witness ==
    /\ pc = "picked"
    /\ variant \in {"freq", "v0b"}
    /\ Len(new_units) = 2
    /\ k_step > 2
    /\ \E v \in 1..HeaderVars(curr) : ~VarOccurs(curr, v)

\* The rank of a variable in the reference order of the frequency selection:
\* the occurring variables before it by count descending, id ascending.
FreqTotal(file, v) == LitCount(file, v) + LitCount(file, -v)

FreqRank(file, v) ==
    Cardinality({ w \in 1..HeaderVars(file) :
        /\ VarOccurs(file, w)
        /\ \/ FreqTotal(file, w) > FreqTotal(file, v)
           \/ FreqTotal(file, w) = FreqTotal(file, v) /\ w < v })

\* C8: frequency top-K is the reference selection: the occurring variables
\* by count descending and id ascending, the first K of them, each as +v
\* when its positive count is >= its negative count and as -v otherwise; on
\* the scenario file with K = 1 it is the literal 1.
C8_FreqIsReference ==
    (pc = "picked" /\ variant = "freq") =>
        /\ Len(new_units) =
              Min2(k_step, Cardinality({ v \in 1..HeaderVars(curr) :
                                           VarOccurs(curr, v) }))
        /\ \A i \in 1..Len(new_units) :
              LET v == Abs(new_units[i])
              IN  /\ VarOccurs(curr, v)
                  /\ FreqRank(curr, v) = i - 1
                  /\ new_units[i] =
                        IF LitCount(curr, v) >= LitCount(curr, -v) THEN v ELSE -v
        /\ (curr = FreqScenario /\ k_step = 1) => new_units = << 1 >>

\* C8 witness: the frequency picker has answered the scenario with K = 1.
C8_Witness ==
    /\ pc = "picked"
    /\ variant = "freq"
    /\ curr = FreqScenario
    /\ k_step = 1
    /\ new_units = << 1 >>

\* The candidates of a score-based selector: the variables it ranks and may
\* return (v0b: positive score; force-walk/clean: neither polarity avoided).
Candidate(sc, v) ==
    CASE variant = "v0b"   -> sc.var_score[v] > 0
      [] variant = "clean" -> v \notin used /\ -v \notin used
      [] OTHER             -> TRUE

\* The ranking scores of the variables under the rounding of the call, as
\* the values the sort compares.
RankingScores(sc) ==
    CASE variant = "v0b" ->
           [v \in 1..sc.nv |-> << sc.var_score[v], rounding.ulp[v] >>]
      [] variant = "clean" ->
           LET ls == literal_scores_and_polarity(sc.sums, sc.nv, rounding)
           IN  [v \in 1..sc.nv |-> ls[v].strength]
      [] OTHER ->
           LET best == best_per_var(sc.sc, sc.nv, rounding)
           IN  [v \in 1..sc.nv |-> << best[v].score, rounding.ulp[v] >>]

\* Two ranking scores are identical: equal values and equal rounding offsets
\* (the v4 score A/M - 0.15 B/sqrt(M) is compared through ScoreCmp).
IdenticalScores(sc, rs, v, w) ==
    IF variant = "v4"
    THEN ScoreCmp(rs[v][1], rs[w][1], sc.sc.M) = 0 /\ rs[v][2] = rs[w][2]
    ELSE rs[v] = rs[w]

\* The position of a variable in a returned list, 0 when it is not there.
PositionOf(lits, v) ==
    IF v \in VarsOf(lits)
    THEN CHOOSE i \in 1..Len(lits) :
            Abs(lits[i]) = v /\ \A j \in 1..(i - 1) : Abs(lits[j]) # v
    ELSE 0

\* C9: in a score-based selector, of two candidate variables with identical
\* ranking scores the one with the smaller id comes first: when the larger
\* one is returned, the smaller one is returned before it.
C9_TiesBySmallerId ==
    (pc = "picked" /\ variant \in {"v0b", "v4", "clean"}) =>
        LET sc == Scored(variant, curr, iters)
            rs == RankingScores(sc)
        IN  \A v, w \in 1..sc.nv :
                (/\ v < w
                 /\ w \in VarsOf(new_units)
                 /\ Candidate(sc, v) /\ Candidate(sc, w)
                 /\ IdenticalScores(sc, rs, v, w)) =>
                    /\ v \in VarsOf(new_units)
                    /\ PositionOf(new_units, v) < PositionOf(new_units, w)

\* C9 witness: a Rayleigh picker has returned two occurring candidate
\* variables with identical scores, the smaller id first.
C9_Witness ==
    /\ pc = "picked"
    /\ variant \in {"v4", "clean"}
    /\ LET sc == Scored(variant, curr, iters)
           rs == RankingScores(sc)
       IN  \E v, w \in 1..sc.nv :
              /\ v < w
              /\ w \in VarsOf(new_units)
              /\ VarOccurs(curr, v) /\ VarOccurs(curr, w)
              /\ Candidate(sc, v) /\ Candidate(sc, w)
              /\ IdenticalScores(sc, rs, v, w)
              /\ PositionOf(new_units, v) < PositionOf(new_units, w)

\* C10 (as claimed): a score-based selector never returns a variable that
\* occurs in no clause of the CNF it scored.
C10_OnlyOccurringVariables ==
    (pc = "picked" /\ variant \in {"v0b", "v4", "clean"}) =>
        \A v \in VarsOf(new_units) : VarOccurs(curr, v)

\* C11: in the budgeted drivers (run_asr_v1.py, run_random_v1.py) every
\* selection step requests min(k_step, k_total - k_added) literals, the count
\* k_added grows by the number requested when the iteration completes, and
\* k_added never exceeds k_total.
C11_RequestCappedByBudget ==
    /\ [](variant \in BudgetVariants => k_added <= k_total)
    /\ [][(variant \in BudgetVariants /\ it' = it + 1) =>
             /\ this_k' = Min2(k_step, k_total - k_added)
             /\ pc' # "error" => k_added' = k_added + this_k']_vars

\* C11 witness: a budgeted run whose k_step does not divide k_total has used
\* up its budget, the last request cut down to what was left.
C11_Witness ==
    /\ variant \in BudgetVariants
    /\ k_step >= 1
    /\ k_total % k_step # 0
    /\ Len(records) >= 3
    /\ this_k < k_step
    /\ Len(new_units) = this_k
    /\ k_added = k_total

\* The selection iterations of a run that have completed (a row each).
SelectionIterations == Len(records) - 1

\* The parameters of a budgeted run pass the checks and k_step divides k_total.
DividingBudget ==
    /\ variant \in BudgetVariants
    /\ k_total > 0 /\ k_step > 0 /\ k_step <= k_total
    /\ k_total % k_step = 0

\* A selection iteration whose row has conflicts 0 and verdict SAT or UNSAT.
ZeroConflictRows == { i \in 2..Len(records) : Solved0(records[i]) }

\* C12: a budgeted run with valid parameters and k_step dividing k_total
\* terminates; it never makes more than k_total / k_step selection
\* iterations; it ends normally after exactly that many when no selection
\* iteration reported zero conflicts with SAT/UNSAT; and it ends with fewer
\* only by the zero-conflict stop of its last iteration or by a fatal error.
C12_BudgetedRunLength ==
    /\ [](DividingBudget =>
            /\ SelectionIterations <= k_total \div k_step
            /\ (pc = "done" /\ ZeroConflictRows = {}) =>
                  SelectionIterations = k_total \div k_step
            /\ (pc = "done" /\ SelectionIterations < k_total \div k_step) =>
                  Len(records) \in ZeroConflictRows
            /\ pc = "error" => SelectionIterations < k_total \div k_step)
    /\ (DividingBudget => <>(pc \in {"done", "error"}))

\* C12 witness: a budgeted run of at least two selection iterations, none of
\* them with a zero-conflict verdict, has ended after k_total / k_step of them.
C12_Witness ==
    /\ DividingBudget
    /\ pc = "done"
    /\ ZeroConflictRows = {}
    /\ k_total \div k_step >= 2
    /\ SelectionIterations = k_total \div k_step

\* C13: in every driver a selection iteration whose solver result has
\* conflicts 0 and verdict SAT or UNSAT is the last one of the run: its row
\* is the last row, the run is then done, and a run that is done takes no
\* further step (no selection, mutation, solve or row).
C13_ZeroConflictStops ==
    /\ [](\A i \in ZeroConflictRows : i = Len(records) /\ pc = "done")
    /\ [][pc # "done"]_vars

\* C13 witness: a run has stopped on a zero-conflict verdict of a selection
\* iteration while budget or iterations were left.
C13_Witness ==
    /\ pc = "done"
    /\ Len(records) >= 2
    /\ Len(records) \in ZeroConflictRows
    /\ IF variant \in BudgetVariants THEN k_added < k_total
                                     ELSE it < max_iters

\* The status lines of a report: the lines that begin, blanks aside, with
\* the verdict marker "s ".
StatusLines(text) ==
    SelectSeq(text, LAMBDA line : StartsWith(Strip(line), StatusMark))

\* Some status line of the report carries the word.
Carries(text, word) ==
    \E i \in 1..Len(StatusLines(text)) : Contains(StatusLines(text)[i], word)

\* C14: the verdict a solver adapter extracts from a report, and writes to
\* the row, is one of SAT, UNSAT, UNKNOWN; for a report with at most one
\* status line it is UNSAT when that line carries UNSATISFIABLE, SAT when it
\* carries SATISFIABLE only, and UNKNOWN when no status line carries either;
\* the scenario report gives UNSAT with 0 conflicts, the zero-conflict stop.
C14_VerdictOneOfThree ==
    pc = "parsed" =>
       LET st == records[1].status
       IN  /\ st \in {"SAT", "UNSAT", "UNKNOWN"}
           /\ Len(StatusLines(log)) <= 1 =>
                 /\ Carries(log, UNSATISFIABLE) => st = "UNSAT"
                 /\ (Carries(log, SATISFIABLE) /\ ~Carries(log, UNSATISFIABLE))
                       => st = "SAT"
                 /\ ~Carries(log, SATISFIABLE) => st = "UNKNOWN"
           /\ log = ScenarioLog =>
                 st = "UNSAT" /\ Solved0(records[1]) /\ StopTest(variant, records[1])

\* The parameters the drivers are required to reject: a total budget or a
\* batch size that is not positive, or a batch size above the total budget.
\* The v4, clean and force-walk drivers take max_iters and k_per_iter; for
\* them the batch size k_per_iter is tested.
InvalidParameters ==
    IF variant \in BudgetVariants
    THEN k_total <= 0 \/ k_step <= 0 \/ k_step > k_total
    ELSE k_step <= 0

\* C15: a run of any driver started with invalid budget or batch parameters
\* ends in an error before a file is written and before the solver is
\* invoked: it has no row and no CNF artifact, and it does not complete.
C15_InvalidParametersFail ==
    InvalidParameters =>
       /\ pc \in {"baseline", "error"}
       /\ records = <<>>
       /\ cnf_out = NoFile

\* The input of the run has no DIMACS header line.  (The current CNF of a
\* run is the caller's input until the first selection succeeds, and no
\* selection succeeds on a file without a header.)
MissingHeader == HeaderLines(curr) = <<>>

\* C16: a run on an input whose DIMACS header is missing aborts before the
\* solver is invoked even once: it never holds a solver result, so no solver
\* invocation is followed by a format error on the input.
C16_FormatErrorBeforeSolve ==
    MissingHeader =>
       /\ records = <<>>
       /\ pc \in {"baseline", "error"}

\* The latest selection iteration got fewer literals than it asked for.
ShortSelection == it >= 1 /\ Len(new_units) < this_k

\* C17: when the selector yields fewer literals than requested, the run ends
\* in an error outcome (non-zero exit, never a normal completion) and no row
\* is appended for that iteration.
C17_ShortSelectionIsError ==
    ShortSelection =>
       /\ ExitCode(pc) = 1
       /\ Len(records) <= it

RECURSIVE UnitsListed(_, _)
\* The number of literals listed in the first n rows.
UnitsListed(rows, n) ==
    IF n = 0 THEN 0
    ELSE UnitsListed(rows, n - 1) + Len(rows[n].new_units)

\* C18: in every row the cumulative count equals the number of literals
\* listed in the rows up to and including it, which is the number of unit
\* clauses the run has appended so far.
C18_CumulativeCountIsExact ==
    \A i \in 1..Len(records) :
        records[i].k_added_total = UnitsListed(records, i)

\* C19: when the process is terminated at any point of a run, the record
\* table on disk holds a row for every iteration whose solve and row write
\* had completed: no completed iteration's row is lost.
C19_CrashKeepsCompletedRows ==
    pc = "killed" => csv_disk = records

\* C20: for every well-formed text t, read_dimacs(write_dimacs(read_dimacs(t)))
\* equals read_dimacs(t): the variable count, the clause sequence (explicit
\* empty clauses included, written as a bare 0) and the comments in the
\* order met are all preserved.
C20_ReadWriteRoundTrip ==
    pc = "written" =>
        LET a == read_dimacs(curr)
            b == read_dimacs(cnf_out)
        IN  /\ b.ok
            /\ b.nvars = a.nvars
            /\ b.clauses = a.clauses
            /\ b.comments = a.comments

\* A text with a comment after a clause, an explicit empty clause and a
\* header after the first clause has been written back.
C20_Witness ==
    /\ pc = "written"
    /\ cnf_out # curr
    /\ \E i, j, h \in 1..Len(curr) :
          /\ i < j
          /\ curr[i].k = "cl" /\ curr[i].toks = <<0>>
          /\ curr[j].k = "c"
          /\ curr[h].k = "p" /\ h > 1
    /\ <<>> \in Range(read_dimacs(cnf_out).clauses)

\* The first clause line of the text comes before any header line.
ClauseBeforeHeader(file) ==
    \E i \in 1..Len(file) :
        /\ file[i].k = "cl"
        /\ \A j \in 1..(i - 1) : file[j].k # "p"

\* C21: reading fails with a format error whenever no header line comes
\* before the first clause line (a header after clause lines included) and
\* whenever the header's variable count is not positive; no CNF is returned
\* and nothing is written.
C21_HeaderBeforeClauses ==
    (ClauseBeforeHeader(curr) \/ read_lines(curr,
         [nvars |-> 0, clauses |-> <<>>, comments |-> <<>>]).nvars <= 0)
       => (pc \in {"input", "error"} /\ cnf_out = NoFile)

\* C22: the force-walk driver solves and records the baseline but does not
\* stop there: with max_iters >= 1 a run that has ended has gone into at
\* least one selection iteration, whatever the baseline solve returned.
C22_ForceWalkPassesBaseline ==
    (variant = "forcewalk" /\ max_iters >= 1 /\ records # <<>> /\ ~Running)
       => it >= 1

\* The literals of a list, each as a unit clause, in the list's order.
AsUnits(lits) == [j \in 1..Len(lits) |-> << lits[j] >>]

RECURSIVE UnitsOfRows(_, _)
\* The literals listed in the first n rows as unit clauses, in the order
\* selected.
UnitsOfRows(rows, n) ==
    IF n = 0 THEN <<>>
    ELSE UnitsOfRows(rows, n - 1) \o AsUnits(rows[n].new_units)

\* The clauses of a file as the reader returns them.
ClausesOf(file) == read_dimacs(file).clauses

\* The CNF solved last: the artifact written last, or the input as long as
\* no artifact has been written.
LastSolved == IF cnf_out # NoFile THEN cnf_out ELSE curr

ClauseVarsUsed ==
    LET r == read_dimacs(curr)
    IN  IF variant = "v4" THEN build_incidence_v4(r.clauses, r.nvars)
        ELSE build_clause_vars(r.clauses, r.nvars)

\* C24: the variable-clause adjacency of every scorer is boolean: in the
\* per-clause variable lists used by the power iteration no variable occurs
\* twice, so a clause repeating a variable counts it once.
C24_AdjacencyIsBoolean ==
    (pc = "picked" /\ variant \in {"v4", "clean"}) =>
        \A j \in 1..Len(ClauseVarsUsed) :
            \A a, b \in 1..Len(ClauseVarsUsed[j]) :
                a # b => ClauseVarsUsed[j][a] # ClauseVarsUsed[j][b]

\* The variables of the file of which neither polarity is in the used set.
UnusedVars ==
    { v \in 1..parse_cnf_num_vars(curr) : v \notin used /\ -v \notin used }

\* C25: a call of the random policy terminates for every used set and every
\* sequence of draws: it makes at most 2000 draws, then the fallback scans
\* the variables in ascending order and adds, with positive polarity, only
\* variables of which neither polarity is in the used set, and returns.
C25_RandomPickTerminates ==
    /\ <>(pc # "drawing")
    /\ [](tries <= MaxTries + 1 /\ (pc = "drawing" => tries <= MaxTries))
    /\ [][pc = "drawing" => tries' >= tries]_vars
    /\ [][(pc = "drawing" /\ tries' > MaxTries) =>
             LET n     == Len(new_units)
                 added == SubSeq(new_units', n + 1, Len(new_units'))
             IN  /\ pc' = "picked"
                 /\ SubSeq(new_units', 1, n) = new_units
                 /\ Len(new_units') <= k_step
                 /\ \A i \in 1..Len(added) : added[i] \in UnusedVars
                 /\ \A i, j \in 1..Len(added) : i < j => added[i] < added[j]
                 /\ \A v \in UnusedVars :
                       v \in Range(added) \/
                          (Len(new_units') = k_step /\
                             \A i \in 1..Len(added) : added[i] < v)
                 /\ used' = used \cup Range(added)]_vars

\* The fallback has run after 2000 draws on a used set holding the negative
\* literal of a variable only, and has added a variable and skipped that one.
C25_Witness ==
    /\ pc = "picked"
    /\ tries = MaxTries + 1
    /\ parse_cnf_num_vars(curr) = 2
    /\ -1 \in used /\ 1 \notin used
    /\ Len(new_units) >= 1
    /\ new_units[Len(new_units)] = 2
    /\ Len(new_units) < k_step

\* C26: pick_units_rayleigh of the clean and force-walk drivers never
\* returns more than k literals, for every integer k the driver can pass,
\* k <= 0 included (then none).
C26_AtMostKUnits ==
    (pc = "picked" /\ variant = "clean") =>
        Len(new_units) <= Max2(k_step, 0)

\* The text "c conflicts : " in front of the count of a conflicts line.
CountPrefix == SubSeq(ScenarioLog[2], 1, 14)

\* The lines of a report that carry a conflict count, and the count's first
\* character in the last of them.
CountLines(text) ==
    SelectSeq(text, LAMBDA line : /\ Len(line) >= 15
                                  /\ SubSeq(line, 1, 14) = CountPrefix
                                  /\ IsDigit(line[15]))

LastCountIsZero(text) ==
    /\ CountLines(text) # <<>>
    /\ CountLines(text)[Len(CountLines(text))][15] = "0"

\* C27: a report in which no conflict count can be parsed never triggers
\* the zero-conflict stop, whatever its verdict: the count is recorded as
\* not reported, and the zero-conflict stop fires only on a count of exactly
\* 0 parsed from the report.
C27_UnparsedNeverStops ==
    pc = "parsed" =>
        LET out == records[1]
        IN  /\ CountLines(log) = <<>> => (~out.parsed /\ ~Solved0(out))
            /\ Solved0(out) => LastCountIsZero(log)
            /\ (out.parsed /\ out.conflicts = 0) => LastCountIsZero(log)

\* A report with a verdict and a conflicts line without a count has been
\* parsed: the verdict is recorded, the count is not reported.
C27_Witness ==
    /\ pc = "parsed"
    /\ records[1].status \in {"SAT", "UNSAT"}
    /\ ~records[1].parsed
    /\ CountLines(log) = <<>>
    /\ \E i \in 1..Len(log) :
          Len(log[i]) >= 14 /\ SubSeq(log[i], 1, 14) = CountPrefix

====
